---- MODULE Spec2Model ----
(***************************************************************************)
(* Model of src/index.ts: SolanaBlockchainQuery (getBlockData,             *)
(* transformTransaction, queryRecentBlocks, saveToFile) and main.          *)
(*                                                                         *)
(* An optional JavaScript value (T | null | undefined) is a sequence of    *)
(* length 0 (absent) or 1 (present).  The result of a call that may throw  *)
(* is a record with a "kind" field.                                        *)
(***************************************************************************)
EXTENDS Integers, Sequences, FiniteSets

\* ---------------------------------------------------------------- bounds
MaxBlocks == 2      \* largest numBlocks passed to queryRecentBlocks
MaxTxs == 2         \* largest number of transactions in one block
MaxBal == 2         \* largest lamport balance in a balance snapshot
TopSlot == 6        \* largest slot number getSlot answers

VARIABLES
  pc,            \* position of main / queryRecentBlocks / saveToFile
  numBlocks,     \* argument of queryRecentBlocks
  currentSlot,   \* const currentSlot (line 106); None before getSlot answers
  i,             \* loop counter of line 110
  slot,          \* const slot of the current iteration (line 111)
  block,         \* const block of the current iteration (line 114)
  index,         \* position of forEach in block.transactions (1-based)
  transactions,  \* the accumulator (line 107)
  inFlight,      \* slots whose getBlock call has not yet settled
  slotReads,     \* number of getSlot calls made so far
  fetchLog,      \* slots for which getBlock was called, in call order
  answers,       \* what each getBlock call answered: "block", "null", "thrown"
  file,          \* the output file: None, or Some(chunks written)
  saveThrew,     \* saveToFile rethrew to its caller (line 150)
  exitCode       \* None while running, Some(code) once the process ended

vars == <<pc, numBlocks, currentSlot, i, slot, block, index, transactions,
          inFlight, slotReads, fetchLog, answers, file, saveThrew, exitCode>>

\* ------------------------------------------------------- optional values
None == <<>>
Some(v) == <<v>>
IsSome(o) == Len(o) = 1
Get(o) == o[1]

\* x || 0 on an optional number
OrZero(o) == IF IsSome(o) /\ Get(o) # 0 THEN Get(o) ELSE 0

\* arr[k] on a JavaScript array (0-based): undefined when out of range
At(arr, k) == IF k + 1 <= Len(arr) THEN Some(arr[k + 1]) ELSE None

Max(a, b) == IF a >= b THEN a ELSE b

\* ------------------------------------------------------ thrown / null
Thrown == [kind |-> "thrown"]
Null == [kind |-> "null"]

\* ---------------------------------------------------- raw transactions
\* A TransactionResponse as transformTransaction reads it:
\*   message     : tx.transaction.message can be reached
\*   accountKeys : tx.transaction.message.accountKeys (optional list)
\*   signature   : tx.transaction.signatures[0]
\*   meta        : tx.meta (optional), with preBalances / postBalances
\*                 (optional lists), err and fee (optional)
ErrValues == {"undefined", "null", "InstructionError"}

BalSeqs == UNION {[1..n -> 0..MaxBal] : n \in 0..2}
OptBalSeqs == {None} \cup {Some(b) : b \in BalSeqs}

Metas ==
  [preBalances : OptBalSeqs, postBalances : OptBalSeqs,
   err : ErrValues, fee : {None, Some(1)}]

KeyLists == {None, Some(<<>>), Some(<<"A">>), Some(<<"A", "B">>)}

Unreadable ==
  [message |-> FALSE, accountKeys |-> None, signature |-> "sigX", meta |-> None]

TxAll ==
  {Unreadable} \cup
  [message : {TRUE}, accountKeys : KeyLists, signature : {"sig"},
   meta : {None} \cup {Some(m) : m \in Metas}]

\* truthiness of tx.meta?.err
Truthy(e) == e \notin {"undefined", "null"}

\* tx.meta?.err
MetaErr(tx) == IF IsSome(tx.meta) THEN Get(tx.meta).err ELSE "undefined"

\* tx.meta?.fee || 0
MetaFee(tx) == IF IsSome(tx.meta) THEN OrZero(Get(tx.meta).fee) ELSE 0

\* tx.meta?.preBalances[1] throws when meta is there and the list is not
BalancesThrow(tx) ==
  /\ IsSome(tx.meta)
  /\ \/ ~IsSome(Get(tx.meta).preBalances)
     \/ ~IsSome(Get(tx.meta).postBalances)

\* tx.meta?.preBalances[1] || 0
PreBalance(tx) ==
  IF IsSome(tx.meta) THEN OrZero(At(Get(Get(tx.meta).preBalances), 1)) ELSE 0

\* tx.meta?.postBalances[1] || 0
PostBalance(tx) ==
  IF IsSome(tx.meta) THEN OrZero(At(Get(Get(tx.meta).postBalances), 1)) ELSE 0

ValueUnclipped(preBalance, postBalance) == postBalance - preBalance

\* Math.max(0, postBalance - preBalance)
Value(preBalance, postBalance) == Max(0, postBalance - preBalance)

ReceiptStatusInverted(tx) == IF Truthy(MetaErr(tx)) THEN 1 ELSE 0

\* tx.meta?.err ? 0 : 1
ReceiptStatus(tx) == IF Truthy(MetaErr(tx)) THEN 0 ELSE 1

\* accountKeys[1]?.toBase58() || ""
ToAddress(accountKeys) ==
  IF IsSome(At(accountKeys, 1)) THEN Get(At(accountKeys, 1)) ELSE ""

\* the body of the try block of transformTransaction
TransformBody(tx, blockTimestamp, blockNumber, blockHash, idx) ==
  IF ~tx.message THEN Thrown
  ELSE IF ~IsSome(tx.accountKeys) \/ Len(Get(tx.accountKeys)) = 0 THEN Null
  ELSE IF BalancesThrow(tx) THEN Thrown
  ELSE [kind |-> "record",
        hash |-> tx.signature,
        transaction_index |-> idx,
        from_address |-> Get(tx.accountKeys)[1],
        to_address |-> ToAddress(Get(tx.accountKeys)),
        value |-> Value(PreBalance(tx), PostBalance(tx)),
        gas |-> MetaFee(tx),
        gas_price |-> 1,
        receipt_status |-> ReceiptStatus(tx),
        block_timestamp |-> blockTimestamp,
        block_number |-> blockNumber,
        block_hash |-> blockHash]

TransformTransactionNoCatch(tx, blockTimestamp, blockNumber, blockHash, idx) ==
  TransformBody(tx, blockTimestamp, blockNumber, blockHash, idx)

\* transformTransaction: the try body, and the catch that returns null
TransformTransaction(tx, blockTimestamp, blockNumber, blockHash, idx) ==
  LET r == TransformBody(tx, blockTimestamp, blockNumber, blockHash, idx)
  IN  IF r = Thrown THEN Null ELSE r

\* ----------------------------------------------------------- raw blocks
\* the transactions the block source serves in a run of the pipeline
TxTransfer ==
  [message |-> TRUE, accountKeys |-> Some(<<"A", "B">>),
   signature |-> "sigTransfer",
   meta |-> Some([preBalances |-> Some(<<2, 0>>), postBalances |-> Some(<<0, 1>>),
                  err |-> "null", fee |-> Some(1)])]
TxNoKeys ==
  [message |-> TRUE, accountKeys |-> Some(<<>>), signature |-> "sigNoKeys", meta |-> None]
TxKeysAbsent ==
  [message |-> TRUE, accountKeys |-> None, signature |-> "sigKeysAbsent", meta |-> None]

PipelineTxs == {TxTransfer, TxNoKeys, TxKeysAbsent, Unreadable}

TxLists(S) == UNION {[1..n -> S] : n \in 0..MaxTxs}

\* a BlockResponse: blockTime (optional), blockhash, transactions
BlocksOf(S) ==
  [kind : {"block"}, blockTime : {None, Some(9)}, blockhash : {"h"},
   transactions : TxLists(S)]

\* what connection.getBlock(slot) can answer: a block, null, or an error
GetBlockOutcomes == BlocksOf(PipelineTxs) \cup {Null, Thrown}

\* what connection.getSlot() can answer
Slots == {1, TopSlot}

GetBlockDataNoCatch(outcome) == outcome

\* getBlockData: the catch turns a transport error into null
GetBlockData(outcome) == IF outcome = Thrown THEN Null ELSE outcome

SlotOfAscending(cur, k) == cur + k

\* const slot = currentSlot - i
SlotOf(cur, k) == cur - k

\* ---------------------------------------------------------------- Init
\* main() has been called; queryRecentBlocks(numBlocks) is about to run
Init ==
  /\ pc = "start"
  /\ numBlocks \in 0..MaxBlocks
  /\ currentSlot = None
  /\ i = 0
  /\ slot = 0
  /\ block = Null
  /\ index = 1
  /\ transactions = <<>>
  /\ inFlight = {}
  /\ slotReads = 0
  /\ fetchLog = <<>>
  /\ answers = <<>>
  /\ file = None
  /\ saveThrew = FALSE
  /\ exitCode = None

\* -------------------------------------------------- queryRecentBlocks
\* line 106: await this.connection.getSlot(); a rejection goes through the
\* catch of line 133, which rethrows to main
GetSlot ==
  /\ pc = "start"
  /\ slotReads' = slotReads + 1
  /\ \E answer \in {Some(s) : s \in Slots} \cup {None} :
       IF IsSome(answer)
       THEN /\ currentSlot' = answer
            /\ pc' = "loop"
       ELSE /\ currentSlot' = currentSlot
            /\ pc' = "queryThrew"
  /\ transactions' = <<>>
  /\ i' = 0
  /\ UNCHANGED <<numBlocks, slot, block, index, inFlight, fetchLog, answers,
                 file, saveThrew, exitCode>>

StartFetchNoAwait ==
  /\ pc = "loop"
  /\ i < numBlocks
  /\ slot' = SlotOf(Get(currentSlot), i)
  /\ inFlight' = inFlight \cup {slot'}
  /\ fetchLog' = Append(fetchLog, slot')
  /\ i' = i + 1
  /\ UNCHANGED <<pc, numBlocks, currentSlot, block, index, transactions,
                 slotReads, answers, file, saveThrew, exitCode>>

\* lines 110-114: the loop test holds; getBlockData(slot) is called
StartFetch ==
  /\ pc = "loop"
  /\ i < numBlocks
  /\ slot' = SlotOf(Get(currentSlot), i)
  /\ inFlight' = inFlight \cup {slot'}
  /\ fetchLog' = Append(fetchLog, slot')
  /\ pc' = "fetching"
  /\ UNCHANGED <<numBlocks, currentSlot, i, block, index, transactions,
                 slotReads, answers, file, saveThrew, exitCode>>

\* lines 114-115: the awaited getBlockData settles; "continue" on null
FetchComplete ==
  /\ pc = "fetching"
  /\ \E outcome \in GetBlockOutcomes :
       LET b == GetBlockData(outcome) IN
         /\ block' = b
         /\ pc' = IF b = Thrown THEN "queryThrew"
                  ELSE IF b = Null THEN "loop" ELSE "processing"
         /\ i' = IF b = Null THEN i + 1 ELSE i
         /\ answers' = Append(answers, outcome.kind)
  /\ inFlight' = inFlight \ {slot}
  /\ index' = 1
  /\ UNCHANGED <<numBlocks, currentSlot, slot, transactions, slotReads,
                 fetchLog, file, saveThrew, exitCode>>

\* block.blockTime || 0
BlockTimeOrZero(b) == OrZero(b.blockTime)

ProcessTxCompacting ==
  /\ pc = "processing"
  /\ index <= Len(block.transactions)
  /\ LET kept == Len(SelectSeq(transactions, LAMBDA r : r.block_number = slot))
         t == TransformTransaction(block.transactions[index],
                BlockTimeOrZero(block), slot, block.blockhash, kept)
     IN  /\ transactions' =
              IF t.kind = "record" THEN Append(transactions, t) ELSE transactions
         /\ pc' = IF t = Thrown THEN "queryThrew" ELSE pc
  /\ index' = index + 1
  /\ UNCHANGED <<numBlocks, currentSlot, i, slot, block, inFlight, slotReads,
                 fetchLog, answers, file, saveThrew, exitCode>>

ProcessTxResetting ==
  /\ pc = "processing"
  /\ index <= Len(block.transactions)
  /\ LET t == TransformTransaction(block.transactions[index],
                BlockTimeOrZero(block), slot, block.blockhash, index - 1)
     IN  /\ transactions' =
              IF t.kind = "record" THEN Append(transactions, t) ELSE <<>>
         /\ pc' = IF t = Thrown THEN "queryThrew" ELSE pc
  /\ index' = index + 1
  /\ UNCHANGED <<numBlocks, currentSlot, i, slot, block, inFlight, slotReads,
                 fetchLog, answers, file, saveThrew, exitCode>>

\* lines 118-129: one call of the forEach callback, for the transaction at
\* position index - 1; an exception leaving it would leave queryRecentBlocks
ProcessTx ==
  /\ pc = "processing"
  /\ index <= Len(block.transactions)
  /\ LET t == TransformTransaction(block.transactions[index],
                BlockTimeOrZero(block), slot, block.blockhash, index - 1)
     IN  /\ transactions' =
              IF t.kind = "record" THEN Append(transactions, t) ELSE transactions
         /\ pc' = IF t = Thrown THEN "queryThrew" ELSE pc
  /\ index' = index + 1
  /\ UNCHANGED <<numBlocks, currentSlot, i, slot, block, inFlight, slotReads,
                 fetchLog, answers, file, saveThrew, exitCode>>

\* lines 129-130, 110: forEach is over, the iteration ends (block and the
\* forEach position go out of scope); i++
EndBlock ==
  /\ pc = "processing"
  /\ index > Len(block.transactions)
  /\ i' = i + 1
  /\ block' = Null
  /\ index' = 1
  /\ pc' = "loop"
  /\ UNCHANGED <<numBlocks, currentSlot, slot, transactions, inFlight,
                 slotReads, fetchLog, answers, file, saveThrew, exitCode>>

\* line 132: the loop test fails; return transactions to main, which calls
\* saveToFile(transactions)
ReturnTransactions ==
  /\ pc = "loop"
  /\ i >= numBlocks
  /\ pc' = "saving"
  /\ UNCHANGED <<numBlocks, currentSlot, i, slot, block, index, transactions,
                 inFlight, slotReads, fetchLog, answers, file, saveThrew,
                 exitCode>>

\* ---------------------------------------------------------- saveToFile
\* JSON.stringify(transactions, null, 2) as the chunks written in order:
\* the opening bracket, one chunk per record, the closing bracket
Serialize(records) ==
  <<[kind |-> "["]>> \o records \o <<[kind |-> "]"]>>

\* fs/promises writeFile(filename, data): open with flag "w" (create and
\* truncate), write the data piece by piece, close.  It either fulfils with
\* all of data in the file, or rejects: before the file was created, or with
\* the first `written` chunks in the file (all of them when close fails).
WriteFileOutcomes(data) ==
  {[ok |-> TRUE, file |-> Some(data)], [ok |-> FALSE, file |-> None]}
  \cup {[ok |-> FALSE, file |-> Some(SubSeq(data, 1, written))] :
          written \in 0..Len(data)}

\* lines 139-152: the awaited writeFile settles; the catch rethrows
SaveToFile ==
  /\ pc = "saving"
  /\ \E outcome \in WriteFileOutcomes(Serialize(transactions)) :
       /\ file' = outcome.file
       /\ saveThrew' = ~outcome.ok
       /\ pc' = IF outcome.ok THEN "saved" ELSE "saveThrew"
  /\ UNCHANGED <<numBlocks, currentSlot, i, slot, block, index, transactions,
                 inFlight, slotReads, fetchLog, answers, exitCode>>

\* ---------------------------------------------------------------- main
\* ExitCodeOnError: process.exit(1) of line 168
ExitCodeOnError == 1

MainCatchExitZero ==
  /\ pc \in {"queryThrew", "saveThrew"}
  /\ exitCode' = Some(0)
  /\ pc' = "exited"
  /\ UNCHANGED <<numBlocks, currentSlot, i, slot, block, index, transactions,
                 inFlight, slotReads, fetchLog, answers, file, saveThrew>>

\* lines 166-169: the catch of main
MainCatch ==
  /\ pc \in {"queryThrew", "saveThrew"}
  /\ exitCode' = Some(ExitCodeOnError)
  /\ pc' = "exited"
  /\ UNCHANGED <<numBlocks, currentSlot, i, slot, block, index, transactions,
                 inFlight, slotReads, fetchLog, answers, file, saveThrew>>

\* lines 165, 170: saveToFile resolved, main returns, the process ends with
\* the default exit code
MainReturn ==
  /\ pc = "saved"
  /\ exitCode' = Some(0)
  /\ pc' = "exited"
  /\ UNCHANGED <<numBlocks, currentSlot, i, slot, block, index, transactions,
                 inFlight, slotReads, fetchLog, answers, file, saveThrew>>

Next ==
  \/ GetSlot
  \/ StartFetch
  \/ FetchComplete
  \/ ProcessTx
  \/ EndBlock
  \/ ReturnTransactions
  \/ SaveToFile
  \/ MainCatch
  \/ MainReturn

Spec == Init /\ [][Next]_vars

\* ------------------------------------------- transformTransaction alone
\* queryRecentBlocks(1) has fetched a block holding one transaction, any of
\* TxAll, and is about to hand it to transformTransaction
InitTx ==
  /\ pc = "processing"
  /\ numBlocks = 1
  /\ currentSlot = Some(TopSlot)
  /\ i = 0
  /\ slot = TopSlot
  /\ \E tx \in TxAll :
       block = [kind |-> "block", blockTime |-> None, blockhash |-> "h",
                transactions |-> <<tx>>]
  /\ index = 1
  /\ transactions = <<>>
  /\ inFlight = {}
  /\ slotReads = 1
  /\ fetchLog = <<TopSlot>>
  /\ answers = <<"block">>
  /\ file = None
  /\ saveThrew = FALSE
  /\ exitCode = None

NextTx == ProcessTx \/ EndBlock

SpecTx == InitTx /\ [][NextTx]_vars

\* ================================================================ claims
\* queryRecentBlocks has returned its accumulator (line 132)
Returned == pc \in {"saving", "saved", "saveThrew"}

\* the slots whose getBlock call answered null or failed
Unavailable == {fetchLog[k] : k \in {n \in 1..Len(answers) : answers[n] # "block"}}

\* the records accumulated for block number s, in accumulator order
RecordsOf(s) == SelectSeq(transactions, LAMBDA r : r.block_number = s)

\* what the claims call a transaction that can be normalized
Normalizable(tx) ==
  /\ tx.message
  /\ IsSome(tx.accountKeys)
  /\ Get(tx.accountKeys) # <<>>
  /\ IsSome(tx.meta) => /\ IsSome(Get(tx.meta).preBalances)
                        /\ IsSome(Get(tx.meta).postBalances)

\* C1: a run reads the current slot once, before any fetch, and then calls
\* getBlock for currentSlot, currentSlot-1, ..., currentSlot-(n-1) in that
\* order, whatever each fetch answers; once the run has returned exactly
\* numBlocks fetches were made, and none for numBlocks = 0, with an empty
\* result.  (A run whose getSlot call failed has observed no slot and makes
\* no fetch.)
C1_SlotWindow ==
  /\ slotReads <= 1
  /\ fetchLog # <<>> => slotReads = 1 /\ IsSome(currentSlot)
  /\ \A k \in 1..Len(fetchLog) : fetchLog[k] = Get(currentSlot) - (k - 1)
  /\ \A j, k \in 1..Len(fetchLog) : j < k => fetchLog[j] > fetchLog[k]
  /\ Len(fetchLog) <= numBlocks
  /\ Returned => Len(fetchLog) = numBlocks
  /\ Returned /\ numBlocks = 0 => fetchLog = <<>> /\ transactions = <<>>
  /\ ~IsSome(currentSlot) => fetchLog = <<>>

C1_Witness ==
  /\ Returned
  /\ numBlocks >= 2
  /\ Len(fetchLog) = numBlocks
  /\ fetchLog[2] = fetchLog[1] - 1
  /\ answers[1] # "block"
  /\ answers[2] = "block"

\* C2: a slot whose getBlock call answers null or fails contributes no
\* record and is fetched once only; no fetch answer ends the run, so the run
\* still returns after numBlocks fetches and the later slots are processed.
C2_UnavailableSkipped ==
  /\ \A k \in 1..Len(transactions) :
       transactions[k].block_number \notin Unavailable
  /\ \A j, k \in 1..Len(fetchLog) : j # k => fetchLog[j] # fetchLog[k]
  /\ pc = "queryThrew" => fetchLog = <<>>
  /\ pc = "fetching" => Len(answers) = Len(fetchLog) - 1
  /\ pc # "fetching" => Len(answers) = Len(fetchLog)
  /\ pc = "loop" /\ answers # <<>> /\ answers[Len(answers)] # "block" =>
       i = Len(answers) /\ inFlight = {}
  /\ Returned /\ Unavailable # {} => Len(fetchLog) = numBlocks

C2_Witness ==
  /\ Returned
  /\ Len(answers) >= 2
  /\ answers[1] = "thrown"
  /\ answers[2] = "block"
  /\ RecordsOf(fetchLog[1]) = <<>>
  /\ RecordsOf(fetchLog[2]) # <<>>

\* the raw transaction a record of the block in hand was made from
SourceOf(r) == block.transactions[r.transaction_index + 1]

\* the second account's balance in a snapshot, 0 when meta, the snapshot's
\* second entry, or the balance itself is absent
SecondBalance(tx, field) ==
  IF ~IsSome(tx.meta) THEN 0
  ELSE LET list == Get(Get(tx.meta)[field])
       IN  IF Len(list) >= 2 THEN list[2] ELSE 0

\* C3: the value of every record is max(0, post - pre) of the second
\* account's balances of its transaction, an absent balance or an absent
\* meta counting as 0; so no record has a negative value.
C3_ValueClipped ==
  /\ \A k \in 1..Len(transactions) : transactions[k].value >= 0
  /\ pc = "processing" =>
     \A k \in 1..Len(transactions) :
       LET r == transactions[k]
           pre == SecondBalance(SourceOf(r), "preBalances")
           post == SecondBalance(SourceOf(r), "postBalances")
       IN  /\ post >= pre => r.value = post - pre
           /\ post < pre => r.value = 0

C3_Witness ==
  /\ pc = "processing"
  /\ Len(transactions) = 1
  /\ SecondBalance(SourceOf(transactions[1]), "postBalances")
       < SecondBalance(SourceOf(transactions[1]), "preBalances")
  /\ transactions[1].value = 0

\* the execution error a transaction reports: meta.err, when meta is there
\* and err is neither absent nor null
ReportsError(tx) ==
  /\ IsSome(tx.meta)
  /\ Get(tx.meta).err \notin {"undefined", "null"}

\* C8: receipt_status of every record is 0 or 1, 1 exactly when its
\* transaction reports no execution error and 0 exactly when it reports one;
\* a normalizable transaction that reports an error still gets its record.
C8_ReceiptStatus ==
  /\ \A k \in 1..Len(transactions) : transactions[k].receipt_status \in {0, 1}
  /\ pc = "processing" =>
       \A k \in 1..Len(transactions) :
         LET r == transactions[k] IN
           /\ r.receipt_status = 1 <=> ~ReportsError(SourceOf(r))
           /\ r.receipt_status = 0 <=> ReportsError(SourceOf(r))
  /\ \A p \in 1..(index - 1) :
       Normalizable(block.transactions[p]) /\ ReportsError(block.transactions[p])
         => \E k \in 1..Len(transactions) :
              /\ transactions[k].transaction_index = p - 1
              /\ transactions[k].receipt_status = 0

C8_Witness ==
  /\ pc = "processing"
  /\ Len(transactions) = 1
  /\ ReportsError(SourceOf(transactions[1]))
  /\ transactions[1].receipt_status = 0
  /\ transactions[1].value > 0

\* C4: in the accumulator, records are ordered by block_number descending
\* and, within one block, by strictly ascending transaction_index; every
\* record of the block in hand carries the position of its transaction in
\* block.transactions, so no two records of a block share an index, also
\* when transactions of the block were skipped.
C4_RecordOrder ==
  /\ \A j, k \in 1..Len(transactions) :
       j < k =>
         \/ transactions[j].block_number > transactions[k].block_number
         \/ /\ transactions[j].block_number = transactions[k].block_number
            /\ transactions[j].transaction_index < transactions[k].transaction_index
  /\ pc = "processing" =>
       \A k \in 1..Len(RecordsOf(slot)) :
         LET r == RecordsOf(slot)[k] IN
           /\ r.transaction_index \in 0..(index - 2)
           /\ SourceOf(r).signature = r.hash

C4_Witness ==
  /\ Returned
  /\ Len(fetchLog) >= 2
  /\ RecordsOf(fetchLog[1]) # <<>>
  /\ Len(RecordsOf(fetchLog[2])) = 1
  /\ RecordsOf(fetchLog[2])[1].transaction_index = 1

\* C5: a transaction that cannot be normalized (no account keys, or a field
\* access that throws) yields no record and does not end the run, and every
\* normalizable transaction of the same block handled so far, before or
\* after it, has exactly one record, at its own position.
C5_MalformedSkipped ==
  /\ pc = "queryThrew" => ~IsSome(currentSlot)
  /\ pc = "processing" =>
       \A p \in 1..(index - 1) :
         LET made == SelectSeq(RecordsOf(slot),
                               LAMBDA r : r.transaction_index = p - 1)
         IN  IF Normalizable(block.transactions[p])
             THEN Len(made) = 1 /\ made[1].hash = block.transactions[p].signature
             ELSE made = <<>>

C5_Witness ==
  /\ pc = "processing"
  /\ index = 3
  /\ block.transactions = <<Unreadable, TxTransfer>>
  /\ Len(RecordsOf(slot)) = 1

\* the run hit a top-level failure: getSlot failed or saveToFile threw
TopLevelFailure == ~IsSome(currentSlot) \/ saveThrew

\* C6: the process ends with a non-zero exit code only after a top-level
\* failure; when getSlot and the file write succeed the exit code is 0,
\* however many blocks or transactions were skipped; after a top-level
\* failure the exit code is 1.
C6_ExitCode ==
  /\ pc \in {"queryThrew", "saveThrew"} => TopLevelFailure
  /\ pc = "saved" => ~TopLevelFailure
  /\ pc = "exited" => IsSome(exitCode)
  /\ IsSome(exitCode) =>
       /\ pc = "exited"
       /\ TopLevelFailure => Get(exitCode) = 1
       /\ ~TopLevelFailure => Get(exitCode) = 0

C6_Witness ==
  /\ exitCode = Some(0)
  /\ Unavailable # {}
  /\ Len(RecordsOf(slot)) = 1
  /\ RecordsOf(slot)[1].transaction_index = 1

\* C7: after saveToFile ends, the output file holds the whole serialized
\* sequence, or saveToFile has thrown and there is no file holding part of it.
C7_AllOrNothing ==
  pc \in {"saved", "saveThrew"} =>
    \/ file = Some(Serialize(transactions))
    \/ saveThrew /\ file = None

\* one step of a run, as C9 wants it
C9_Step ==
  /\ Len(transactions') >= Len(transactions)
  /\ SubSeq(transactions', 1, Len(transactions)) = transactions
  /\ pc \in {"start", "loop", "fetching", "saving", "saved", "saveThrew",
             "queryThrew", "exited"} => transactions' = transactions
  /\ (pc = "processing" /\ index <= Len(block.transactions)
        /\ ~Normalizable(block.transactions[index]))
       => transactions' = transactions

\* C9: no step removes or changes an accumulated record; a step that skips
\* an unavailable block or a transaction that cannot be normalized leaves
\* the accumulator as it is, so the records of earlier blocks and
\* transactions are still there when the run returns.
C9_AppendOnly == [][C9_Step]_vars

C9_Witness ==
  /\ Returned
  /\ Len(answers) >= 2
  /\ answers[1] = "block"
  /\ answers[2] = "null"
  /\ RecordsOf(fetchLog[1]) # <<>>
  /\ Len(transactions) = Len(RecordsOf(fetchLog[1]))

\* the fetches in flight, as C10 wants them
C10_State ==
  /\ Cardinality(inFlight) <= 1
  /\ inFlight # {} <=> pc = "fetching"
  /\ pc = "fetching" => inFlight = {slot} /\ slot = fetchLog[Len(fetchLog)]

\* one step of a run, as C10 wants it
C10_Step ==
  /\ fetchLog' # fetchLog =>
       /\ inFlight = {}
       /\ pc = "loop"
       /\ Len(answers) = Len(fetchLog)
  /\ pc = "processing" /\ pc' # "processing" =>
       /\ index > Len(block.transactions)
       /\ \A p \in 1..Len(block.transactions) :
            Normalizable(block.transactions[p]) =>
              \E k \in 1..Len(transactions) :
                /\ transactions[k].block_number = slot
                /\ transactions[k].transaction_index = p - 1
  /\ transactions' # transactions => pc = "processing" /\ inFlight = {}

\* C10: at most one getBlock call is in flight, and only while the loop
\* awaits it; a fetch starts only when the previous one has settled and every
\* transaction of its block has gone through the forEach; the accumulator
\* changes only in the forEach of the loop.
C10_Sequential == []C10_State /\ [][C10_Step]_vars

C10_Witness ==
  /\ pc = "fetching"
  /\ Len(fetchLog) = 2
  /\ answers = <<"block">>
  /\ Len(transactions) = 2

====
